---- MODULE Spec2Model ----
(***************************************************************************)
(* Model of trax/rl/policy_tasks.py: PolicyTrainTask.policy_batch (the     *)
(* batch builder), the lazy labeled-data stream map(policy_batch, stream)  *)
(* shared by PolicyTrainTask and PolicyEvalTask, and the entropy metric.   *)
(*                                                                         *)
(* Arrays are records [shape, rows]: rows[b][t] is the entry (or the       *)
(* opaque sub-array, when there are trailing dimensions) at batch index b  *)
(* and timestep t.  Floating-point numbers are modelled exactly: a finite  *)
(* value is a reduced fraction n/d, a normalized advantage is the symbolic *)
(* quotient (n/d) / (sqrt(vn/vd) + epsilon), and the two non-finite IEEE   *)
(* values inf and nan are values of their own.  Rounding is not modelled.  *)
(***************************************************************************)
EXTENDS Integers, Sequences, FiniteSets, TLC

VARIABLES cfg, streamPos, buildCalls, requested, received, last, metric, halted

vars == <<cfg, streamPos, buildCalls, requested, received, last, metric, halted>>

\* ---------------------------------------------------------------- bounds
MaxBatch == 2
MaxSeq == 2
MaxPulls == 3

\* --------------------------------------------------------------- numbers
Abs(x) == IF x < 0 THEN -x ELSE x

RECURSIVE GCD(_, _)
GCD(a, b) == IF b = 0 THEN a ELSE GCD(b, a % b)

Val(kind, n, d, vn, vd) == [k |-> kind, n |-> n, d |-> d, vn |-> vn, vd |-> vd]

\* the finite value n/d (d > 0), reduced
Fin(n, d) == LET g == GCD(Abs(n), d) IN Val("fin", n \div g, d \div g, 0, 1)

Zero == Fin(0, 1)
One == Fin(1, 1)
NaN == Val("nan", 0, 1, 0, 1)
Inf == Val("inf", 0, 1, 0, 1)

IsFinite(v) == v.k \notin {"nan", "inf"}

RAdd(x, y) ==
  LET l == (x.d * y.d) \div GCD(x.d, y.d)
  IN Fin(x.n * (l \div x.d) + y.n * (l \div y.d), l)

RNeg(x) == Fin(-x.n, x.d)
RSub(x, y) == RAdd(x, RNeg(y))
RMul(x, y) == Fin(x.n * y.n, x.d * y.d)
RDivInt(x, n) == Fin(x.n, x.d * n)

RECURSIVE SumSeq(_)
SumSeq(s) == IF s = <<>> THEN Zero ELSE RAdd(Head(s), SumSeq(Tail(s)))

\* ---------------------------------------------------------------- arrays
Min(a, b) == IF a < b THEN a ELSE b

Arr(rows, trail) ==
  [shape |-> <<Len(rows), IF rows = <<>> THEN 0 ELSE Len(rows[1])>> \o trail,
   rows |-> rows]

Scalar(v) == [shape |-> <<>>, rows |-> <<<<v>>>>]

NoArr == [shape |-> <<>>, rows |-> <<>>]

\* x.shape[:2]
Shape2(a) == SubSeq(a.shape, 1, Min(2, Len(a.shape)))

RECURSIVE Flatten(_)
Flatten(rows) == IF rows = <<>> THEN <<>> ELSE Head(rows) \o Flatten(Tail(rows))

MapRows(rows, F(_)) == [b \in 1..Len(rows) |-> [t \in 1..Len(rows[b]) |-> F(rows[b][t])]]

Trail(a) == SubSeq(a.shape, 3, Len(a.shape))

\* variants of Trim: no trimming, and trimming that keeps the last n timesteps
TrimNone(a, n) == a

TrimTail(a, n) ==
  Arr([b \in 1..Len(a.rows) |->
         SubSeq(a.rows[b], Len(a.rows[b]) - Min(n, Len(a.rows[b])) + 1, Len(a.rows[b]))],
      SubSeq(a.shape, 3, Len(a.shape)))

\* a[:, :n]
Trim(a, n) ==
  Arr([b \in 1..Len(a.rows) |-> SubSeq(a.rows[b], 1, Min(n, Len(a.rows[b])))], Trail(a))

\* np.array(x): a copy with storage of its own
np_array(a) == [shape |-> a.shape, rows |-> a.rows]

\* np.mean(a): the scalar mean of all entries, flattened; nan for no entry
np_mean(a) ==
  LET f == Flatten(a.rows)
  IN IF Len(f) = 0 THEN NaN ELSE RDivInt(SumSeq(f), Len(f))

\* np.std(a): the population standard deviation of all entries, flattened,
\* kept as the square root of the fraction vn/vd; nan for no entry
np_std(a) ==
  LET f == Flatten(a.rows)
      m == np_mean(a)
      sq == [i \in 1..Len(f) |-> RMul(RSub(f[i], m), RSub(f[i], m))]
      v == RDivInt(SumSeq(sq), Len(f))
  IN IF Len(f) = 0 THEN NaN ELSE Val("sqrt", 0, 1, v.n, v.d)

\* a -= m, elementwise
ISub(a, m) == [a EXCEPT !.rows = MapRows(a.rows, LAMBDA x : RSub(x, m))]

\* a /= (s + epsilon), elementwise, s the square root np_std returned
IDiv(a, s) == [a EXCEPT !.rows = MapRows(a.rows, LAMBDA x : Val("quot", x.n, x.d, s.vn, s.vd))]

NormalizeAll(a) ==
  LET centered == ISub(a, np_mean(a))
  IN IDiv(centered, np_std(centered))

\* variant of Normalize: each row by its own mean and standard deviation
NormalizeRows(a) ==
  [a EXCEPT !.rows = [b \in 1..Len(a.rows) |-> NormalizeAll(Arr(<<a.rows[b]>>, <<>>)).rows[1]]]

\* lines 136-137
Normalize(a) ==
  LET centered == ISub(a, np_mean(a))
  IN IDiv(centered, np_std(centered))

\* np.exp in float64: overflows to inf above 709.78, underflows to 0 below -745.13
Exp(x) ==
  IF x.k = "fin"
  THEN IF x.n > 709 * x.d THEN Inf
       ELSE IF x.n < -745 * x.d THEN Zero
       ELSE Val("exp", x.n, x.d, 0, 1)
  ELSE IF x.k = "quot" THEN Val("expquot", x.n, x.d, x.vn, x.vd)
  ELSE x

\* the injected weight functions: the docstring's three examples (lines 70-73)
\* and one that breaks the shape contract by adding a column
WeightFns == {"id", "exp", "one", "pad"}

weight_fn(name, adv) ==
  CASE name = "id" -> adv
    [] name = "exp" -> Arr(MapRows(adv.rows, Exp), <<>>)
    [] name = "one" -> Scalar(One)
    [] name = "pad" -> Arr([b \in 1..Len(adv.rows) |-> adv.rows[b] \o <<One>>], <<>>)

\* IEEE product of a weight and a mask entry (0 or 1)
Mul(w, m) == IF m = 1 THEN w ELSE IF IsFinite(w) THEN Zero ELSE NaN

\* numpy broadcasting of a shape of at most two dimensions against a 2-D shape
Pad2(s) == IF Len(s) = 0 THEN <<1, 1>> ELSE IF Len(s) = 1 THEN <<1>> \o s ELSE s

BroadcastOK(s1, s2) ==
  \A i \in 1..2 : Pad2(s1)[i] = Pad2(s2)[i] \/ Pad2(s1)[i] = 1 \/ Pad2(s2)[i] = 1

BroadcastDim(x, y) == IF x = 1 THEN y ELSE x

\* w * mask (line 143), defined when BroadcastOK
Multiply(w, m) ==
  LET s1 == Pad2(w.shape)
      s2 == Pad2(m.shape)
      nb == BroadcastDim(s1[1], s2[1])
      nt == BroadcastDim(s1[2], s2[2])
      Ix(dim, i) == IF dim = 1 THEN 1 ELSE i
      rows == [b \in 1..nb |-> [t \in 1..nt |->
                Mul(w.rows[Ix(s1[1], b)][Ix(s1[2], t)], m.rows[Ix(s2[1], b)][Ix(s2[2], t)])]]
  IN [shape |-> <<nb, nt>>, rows |-> rows]

\* ------------------------------------------------- inputs of one build call
ObsTrail == <<3>>

TagRows(nb, nt, base) == [b \in 1..nb |-> [t \in 1..nt |-> base + 10 * b + t]]

NumRows(nb, nt, base) == [b \in 1..nb |-> [t \in 1..nt |-> Fin(base + b + 2 * t, 1)]]

\* a mask row: 1 on the first n timesteps (the trajectory), 0 on the padding
MaskRow(nt, n) == [t \in 1..nt |-> IF t <= n THEN 1 ELSE 0]

MaskRows(nb, nt) == [1..nb -> { MaskRow(nt, n) : n \in 0..nt }]

\* the k-th trajectory batch the stream yields (TrajectoryNp, lines 100-101):
\* observations fix (batch_size, seq_len); actions and mask may disagree with it
TrajectoryBatches(k, maxB, maxT) ==
  { [id |-> k,
     observations |-> Arr(TagRows(s[1], s[2], 1000 * k), ObsTrail),
     actions |-> Arr(TagRows(sa[1], sa[2], 1000 * k + 500), <<>>),
     rewards |-> Arr(NumRows(s[1], s[2], 0), <<>>),
     returns |-> Arr(NumRows(s[1], s[2], 5), <<>>),
     dones |-> Arr([b \in 1..s[1] |-> [t \in 1..s[2] |-> FALSE]], <<>>),
     mask |-> Arr(m, <<>>)] :
    s \in (1..maxB) \X (1..maxT),
    sa \in (1..maxB) \X (1..maxT),
    m \in UNION { MaskRows(sm[1], sm[2]) : sm \in (1..maxB) \X (1..maxT) } }

\* what the injected value_fn may return for a batch: any 2-D shape, or the
\* batch's shape with a trailing unit dimension
ValueFnResults(tb, maxB, maxT) ==
  { Arr(NumRows(s[1], s[2], 1), <<>>) : s \in (1..maxB) \X (1..maxT) }
    \cup { Arr(NumRows(tb.observations.shape[1], tb.observations.shape[2], 1), <<1>>) }

\* advantage rows: constant at a small or at a large value, or a step from
\* the one to the other after the first timestep
AdvRow(nt, kind) ==
  [t \in 1..nt |-> IF kind = "low" \/ (kind = "step" /\ t = 1) THEN Fin(-1, 1) ELSE Fin(1000, 1)]

AdvRows(nb, nt) == [1..nb -> { AdvRow(nt, kind) : kind \in {"low", "high", "step"} }]

\* what the injected advantage_estimator may return: a fresh float array of any
\* 2-D shape and contents, one with a trailing dimension, a fresh integer
\* array, or a view base[:, :n] of one of its arguments
EstimatorResults(tb, values, maxB, maxT) ==
  LET nb == tb.observations.shape[1]
      nt == tb.observations.shape[2]
      Base(name) == IF name = "values" THEN values ELSE tb[name]
  IN { [arr |-> Arr(rows, <<>>), dtype |-> "float", base |-> "fresh"] :
         rows \in UNION { AdvRows(s[1], s[2]) : s \in (1..maxB) \X (0..maxT) } }
     \cup { [arr |-> Arr(NumRows(nb, nt, 0), <<1>>), dtype |-> "float", base |-> "fresh"] }
     \cup { [arr |-> Arr(NumRows(nb, n, 0), <<>>), dtype |-> "int", base |-> "fresh"] : n \in 1..nt }
     \cup { [arr |-> Trim(Base(name), n), dtype |-> "float", base |-> name] :
              name \in {"rewards", "returns", "values"}, n \in 0..nt }

\* base[:, :n] shares storage with base: an in-place update of the view shows
\* in the first n columns of the argument it was taken from
WriteThrough(tb, base, adv) ==
  IF base \in {"rewards", "returns"}
  THEN [tb EXCEPT ![base].rows =
          [b \in 1..Len(@) |-> adv.rows[b] \o SubSeq(@[b], Len(adv.rows[b]) + 1, Len(@[b]))]]
  ELSE tb

\* ------------------------------------------------------------------ state
Tasks == {"train", "eval"}

\* variant of TaskLabeledData: every task iterates a stream of its own
TaskOwnData(c) == c

\* the labeled-data iterator each task pulls from: PolicyTrainTask builds
\* map(policy_batch, trajectory_batch_stream) (line 88) and PolicyEvalTask is
\* handed that same object, train_task.labeled_data (line 166)
TaskLabeledData(c) == "labeled_data"

Iterators == { TaskLabeledData(c) : c \in Tasks }

\* variant of MapNext: the map reads one element ahead
MapNextAhead(pos) == pos + 2

\* next(map_object): one element of the underlying stream per call
MapNext(pos) == pos + 1

NoEst == [arr |-> NoArr, dtype |-> "none", base |-> "none"]
NoResult == [observations |-> NoArr, actions |-> NoArr, weights |-> NoArr]
NoArgs == [actions |-> NoArr, weights |-> NoArr]
NoMetric == [called |-> FALSE, inputs |-> NoArr, args |-> NoArgs, alt |-> NoArgs,
             value |-> NaN, other |-> NaN]

NoCall ==
  [src |-> 0, consumer |-> "none", tb0 |-> NoArr, tb1 |-> NoArr, vf0 |-> NoArr, vf1 |-> NoArr,
   est0 |-> NoEst, outcome |-> "none", line |-> 0,
   calls |-> [value_fn |-> 0, advantage_estimator |-> 0, weight_fn |-> 0],
   normalized |-> FALSE, wfArg |-> NoArr, mask |-> NoArr, weights |-> NoArr,
   result |-> NoResult]

Started(c, tb) == [NoCall EXCEPT !.src = tb.id, !.consumer = c, !.tb0 = tb, !.tb1 = tb]

Configs == [weight_fn : WeightFns, advantage_normalization : BOOLEAN]

\* how many elements the base-class constructors (training.TrainTask and
\* training.EvalTask, reached through super().__init__) take from labeled_data
BaseInitPulls == 0

\* PolicyTrainTask.__init__ and PolicyEvalTask.__init__: the configuration is
\* stored and the lazy map is built
Init ==
  /\ cfg \in Configs
  /\ streamPos = [i \in Iterators |-> BaseInitPulls]
  /\ buildCalls = 0
  /\ requested = [c \in Tasks |-> 0]
  /\ received = [c \in Tasks |-> <<>>]
  /\ last = NoCall
  /\ metric = NoMetric
  /\ halted = FALSE

\* one next(labeled_data) ends: the element is delivered to the task that
\* asked, or the exception propagates and the driver stops
Finish(c, rec) ==
  /\ last' = rec
  /\ streamPos' = [streamPos EXCEPT ![TaskLabeledData(c)] = MapNext(@)]
  /\ buildCalls' = buildCalls + 1
  /\ requested' = [requested EXCEPT ![c] = @ + 1]
  /\ received' = IF rec.outcome = "returned"
                 THEN [received EXCEPT ![c] = Append(@, rec.src)]
                 ELSE received
  /\ halted' = (rec.outcome # "returned")
  /\ metric' = NoMetric
  /\ UNCHANGED cfg

Raise(c, rec, kind, line) == Finish(c, [rec EXCEPT !.outcome = kind, !.line = line])

\* variant of ShapeChecks: the mask is not validated
ShapeChecksActionsOnly(tb) == Shape2(tb.actions) = Shape2(tb.observations)

\* lines 111-112
ShapeChecks(tb) ==
  /\ Shape2(tb.actions) = Shape2(tb.observations)
  /\ tb.mask.shape = Shape2(tb.observations)

\* lines 123-145, after the estimator returned est
AfterEstimator(c, tb, r, values, est) ==
  LET batch_size == tb.observations.shape[1]
      seq_len == tb.observations.shape[2]
      adv_seq_len == est.arr.shape[2]
      r2 == [r EXCEPT !.calls.advantage_estimator = 1, !.est0 = est]
      norm == cfg.advantage_normalization
      advantages == IF norm THEN Normalize(est.arr) ELSE est.arr
      tbm == IF norm THEN WriteThrough(tb, est.base, advantages) ELSE tb
      observations == Trim(tb.observations, adv_seq_len)
      actions == Trim(tb.actions, adv_seq_len)
      mask == Trim(tb.mask, adv_seq_len)
      w == weight_fn(cfg.weight_fn, advantages)
      r3 == [r2 EXCEPT !.normalized = norm, !.tb1 = tbm, !.calls.weight_fn = 1,
                       !.wfArg = advantages, !.mask = mask]
      weights == Multiply(w, mask)
  IN IF adv_seq_len > seq_len THEN Raise(c, r2, "AssertionError", 132)
     ELSE IF est.arr.shape # <<batch_size, adv_seq_len>> THEN Raise(c, r2, "AssertionError", 133)
     ELSE IF norm /\ est.dtype # "float" THEN Raise(c, r2, "TypeError", 136)
     ELSE IF ~BroadcastOK(w.shape, mask.shape) THEN Raise(c, r3, "ValueError", 143)
     ELSE IF weights.shape # <<batch_size, adv_seq_len>>
          THEN Raise(c, [r3 EXCEPT !.weights = weights], "AssertionError", 144)
     ELSE Finish(c, [r3 EXCEPT !.outcome = "returned", !.line = 145, !.weights = weights,
                               !.result = [observations |-> observations,
                                           actions |-> actions,
                                           weights |-> weights]])

\* PolicyTrainTask.policy_batch (lines 96-145) on batch tb, for task c
policy_batch(c, tb, maxB, maxT) ==
  LET r0 == Started(c, tb)
  IN IF ~ShapeChecks(tb) THEN Raise(c, r0, "AssertionError", 111)
     ELSE \E vf \in ValueFnResults(tb, maxB, maxT) :
            LET values == np_array(vf)
                r1 == [r0 EXCEPT !.calls.value_fn = 1, !.vf0 = vf, !.vf1 = vf]
            IN IF values.shape # Shape2(tb.observations)
               THEN Raise(c, r1, "AssertionError", 115)
               ELSE \E est \in EstimatorResults(tb, values, maxB, maxT) :
                      AfterEstimator(c, tb, r1, values, est)

\* the driver goes on pulling until an exception stopped it
CanPull(maxPulls) == ~halted /\ buildCalls < maxPulls

\* next(labeled_data) by task c: the map takes the next trajectory batch of
\* the stream and applies policy_batch to it (line 88)
Pull(c, maxB, maxT) ==
  \E tb \in TrajectoryBatches(MapNext(streamPos[TaskLabeledData(c)]), maxB, maxT) :
    policy_batch(c, tb, maxB, maxT)

\* the training loop asks for one training example
Build ==
  /\ CanPull(1)
  /\ Pull("train", MaxBatch, MaxSeq)

Next == Build

Spec == Init /\ [][Next]_vars

\* ----------------------------------------------------- the shared stream
\* the batches of the shared stream: single trajectories of one timestep
StreamDims == <<1, 1>>

\* the training loop asks for one example
TrainPull ==
  /\ CanPull(MaxPulls)
  /\ Pull("train", StreamDims[1], StreamDims[2])

\* the evaluation loop asks for one example
EvalPull ==
  /\ CanPull(MaxPulls)
  /\ Pull("eval", StreamDims[1], StreamDims[2])

NextStream == TrainPull \/ EvalPull

SpecStream == Init /\ [][NextStream]_vars

\* ------------------------------------------------------ the entropy metric
\* entropy, in thousandths of a nat, of the uniform distribution over K
\* actions, K = 1, 2, 3: 1000 * ln K
LnMilli == <<0, 693, 1099>>

\* policy_distribution.entropy on one entry of the network output; an entry
\* is K, standing for uniform logits over K actions
DistEntropy(K) == Fin(LnMilli[K], 1)

\* jnp.mean
jnp_mean(a) == np_mean(a)

\* variant of Entropy: steps of zero weight count as zero entropy
EntropyWeighted(policy_inputs, actions, weights) ==
  jnp_mean(Arr([b \in 1..Len(policy_inputs.rows) |-> [t \in 1..Len(policy_inputs.rows[b]) |->
                  IF b \in DOMAIN weights.rows /\ t \in DOMAIN weights.rows[b]
                     /\ weights.rows[b][t] = Zero
                  THEN Zero ELSE DistEntropy(policy_inputs.rows[b][t])]], <<>>))

\* Entropy (lines 171-174)
Entropy(policy_inputs, actions, weights) ==
  jnp_mean(Arr(MapRows(policy_inputs.rows, DistEntropy), <<>>))

LogitRow(nt, kind) ==
  [t \in 1..nt |-> CASE kind = "u1" -> 1 [] kind = "u2" -> 2 [] kind = "u3" -> 3
                     [] kind = "mixed" -> 2 + (t % 2)]

PolicyInputs ==
  { Arr(rows, <<>>) :
      rows \in UNION { [1..s[1] -> { LogitRow(s[2], kind) : kind \in {"u1", "u2", "u3", "mixed"} }] :
                         s \in (1..MaxBatch) \X (0..MaxSeq) } }

\* the actions and weights handed to the metric with policy_inputs p: those
\* of a training example, of an example with every step masked, or placeholders
MetricArgs(p) ==
  LET nb == p.shape[1]
      nt == p.shape[2]
      W(v) == Arr([b \in 1..nb |-> [t \in 1..nt |-> v]], <<>>)
  IN { NoArgs,
       [actions |-> Arr(TagRows(nb, nt, 500), <<>>), weights |-> W(One)],
       [actions |-> Arr(TagRows(nb, nt, 700), <<>>), weights |-> W(Zero)] }

EntropyMetric ==
  /\ ~metric.called
  /\ \E p \in PolicyInputs : \E a1 \in MetricArgs(p) : \E a2 \in MetricArgs(p) :
       metric' = [called |-> TRUE, inputs |-> p, args |-> a1, alt |-> a2,
                  value |-> Entropy(p, a1.actions, a1.weights),
                  other |-> Entropy(p, a2.actions, a2.weights)]
  /\ UNCHANGED <<cfg, streamPos, buildCalls, requested, received, last, halted>>

NextMetric == EntropyMetric

SpecMetric == Init /\ [][NextMetric]_vars

\* ================================================================ claims
Returned == last.outcome = "returned"
Called == last.outcome # "none"
BatchSize == last.tb0.observations.shape[1]
SeqLen == last.tb0.observations.shape[2]
AdvSeqLen == last.est0.arr.shape[2]

C2_MaskedWeightsZero ==
  Returned =>
    \A b \in 1..BatchSize : \A t \in 1..AdvSeqLen :
      last.tb0.mask.rows[b][t] = 0 => last.result.weights.rows[b][t] = Zero

C4_ShapeViolationFirst ==
  (Called /\ Shape2(last.tb0.actions) # last.tb0.mask.shape) =>
    /\ last.outcome = "AssertionError"
    /\ last.calls = [value_fn |-> 0, advantage_estimator |-> 0, weight_fn |-> 0]
    /\ ~last.normalized
    /\ last.wfArg = NoArr
    /\ last.tb1 = last.tb0
    /\ last.result = NoResult
    /\ received[last.consumer] = <<>>

C4_Witness ==
  /\ Called /\ Shape2(last.tb0.actions) # last.tb0.mask.shape
  /\ last.tb0.mask.shape # Shape2(last.tb0.observations)
  /\ Shape2(last.tb0.actions) = Shape2(last.tb0.observations)
  /\ last.outcome = "AssertionError"

\* C5: build never modifies its input: after the call the arrays of the
\* trajectory batch and the array value_fn returned hold the contents they
\* held before it, also when the estimator's result shares storage with one
\* of its arguments.
C5_InputsUnmodified ==
  Called => (last.tb1 = last.tb0 /\ last.vf1 = last.vf0)

\* one of the shape validations of build is violated
ShapeViolation ==
  LET bt == Shape2(last.tb0.observations)
  IN \/ Shape2(last.tb0.actions) # bt
     \/ last.tb0.mask.shape # bt
     \/ (last.calls.value_fn = 1 /\ last.vf0.shape # bt)
     \/ (last.calls.advantage_estimator = 1
           /\ (AdvSeqLen > bt[2] \/ last.est0.arr.shape # <<bt[1], AdvSeqLen>>))
     \/ (last.weights # NoArr /\ last.weights.shape # <<bt[1], AdvSeqLen>>)

\* C6: build either returns or fails with the shape-mismatch error, and it
\* fails exactly when one of the shape validations is violated; no other
\* kind of error arises.
C6_OnlyShapeMismatch ==
  Called =>
    /\ last.outcome \in {"returned", "AssertionError"}
    /\ (last.outcome = "AssertionError") <=> ShapeViolation

\* C7: with advantage normalization on, every advantage passed to weight_fn
\* is (a - m) / (s + epsilon), m the mean and s the population standard
\* deviation of all batch_size * adv_seq_len entries of the estimator's result
\* together; so the values passed have mean 0 and standard deviation
\* s / (s + epsilon).
C7_GlobalNormalization ==
  (Called /\ last.calls.weight_fn = 1 /\ cfg.advantage_normalization) =>
    LET a == last.est0.arr.rows
        f == Flatten(a)
        n == Len(f)
        m == RDivInt(SumSeq(f), n)
        s2 == RDivInt(SumSeq([i \in 1..n |-> RMul(RSub(f[i], m), RSub(f[i], m))]), n)
        out == last.wfArg.rows
        g == Flatten(out)
        num == [i \in 1..n |-> Fin(g[i].n, g[i].d)]
    IN n > 0 =>
         /\ \A b \in 1..Len(a) : \A t \in 1..Len(a[b]) :
              out[b][t] = Val("quot", RSub(a[b][t], m).n, RSub(a[b][t], m).d, s2.n, s2.d)
         /\ SumSeq(num) = Zero
         /\ \A i \in 1..n :
              RDivInt(SumSeq([j \in 1..n |-> RMul(num[j], num[j])]), n) = Fin(g[i].vn, g[i].vd)

C7_Witness ==
  /\ Returned /\ cfg.advantage_normalization /\ cfg.weight_fn = "id"
  /\ BatchSize = 2 /\ AdvSeqLen = 2
  /\ last.est0.arr.rows[1] # last.est0.arr.rows[2]
  /\ last.est0.arr.rows[1][1] # last.est0.arr.rows[1][2]
  /\ last.wfArg.rows[1][1].vn > 0

\* the number of trajectory batches taken from trajectory_batch_stream
Taken == streamPos[TaskLabeledData("train")]

Range(q) == { q[i] : i \in 1..Len(q) }

C9_EntropyIgnoresArgs ==
  metric.called =>
    LET f == Flatten(metric.inputs.rows)
        n == Len(f)
    IN /\ metric.value = metric.other
       /\ n > 0 => RMul(metric.value, Fin(n, 1)) = SumSeq([i \in 1..n |-> DistEntropy(f[i])])
       /\ \A K \in 1..Len(LnMilli) :
            (n > 0 /\ \A i \in 1..n : f[i] = K) => metric.value = Fin(LnMilli[K], 1)
       /\ buildCalls = 0 /\ last = NoCall /\ ~halted
       /\ received = [c \in Tasks |-> <<>>]

C9_Witness ==
  /\ metric.called
  /\ metric.inputs.shape = <<2, 2>>
  /\ metric.alt = NoArgs
  /\ metric.args # NoArgs
  /\ metric.args.weights.rows[1][1] = Zero
  /\ metric.value = Fin(LnMilli[3], 1)

\* C10: the training task and the evaluation task pull from one and the same
\* iterator: under any interleaving every batch taken from the stream is
\* built once and its example goes to exactly one of the two tasks, each
\* task receiving its examples in stream order.
C10_SharedIterator ==
  /\ TaskLabeledData("eval") = TaskLabeledData("train")
  /\ Range(received["train"]) \cap Range(received["eval"]) = {}
  /\ Range(received["train"]) \cup Range(received["eval"])
       = 1..(buildCalls - (IF halted THEN 1 ELSE 0))
  /\ \A c \in Tasks : \A i \in 1..Len(received[c]) : \A j \in 1..Len(received[c]) :
       i < j => received[c][i] < received[c][j]

C10_Witness ==
  /\ received["train"] = <<1, 3>>
  /\ received["eval"] = <<2>>

====
